---- MODULE Spec2Model ----
(***************************************************************************)
(* Model of the front end of project-mcs: parser::parse and                *)
(* parser::parse_expr (src/src/parser.rs) driving the lazy lexer.          *)
(*                                                                         *)
(* The lexer (crate::lexer) is modelled from its documented contract: it   *)
(* scans the source one token at a time, on demand, with one token of      *)
(* lookahead.  The source text is an input of the program; it is revealed  *)
(* token by token as the lexer scans it (toks is the part scanned so far), *)
(* so every run of the model is the run of parse on one token stream.      *)
(***************************************************************************)
EXTENDS Integers, Sequences, FiniteSets, TLC

\* ---------------------------------------------------------------- bounds
\* Longest token stream the lexer produces before the source is exhausted.
MaxToks == 11

\* ------------------------------------------------------------- constants
\* i32::MAX, the largest value `src.parse::<i32>()` decodes.
I32Max == 2147483647

\* ---------------------------------------------------------------- tokens
\* TokenKind of the lexer.
OperatorKinds == {"Plus", "Minus", "Star", "Slash"}

TokenKind == {"Name", "Num", "Eq", "Semicolon"} \cup OperatorKinds

\* Source substrings (tok.data), as sequences of characters.
NameData == {<<"a">>, <<"b">>}

NumData == {<<"1", "3">>, <<"2", "1", "4", "7", "4", "8", "3", "6", "4", "8">>}

PunctData ==
    [Eq |-> <<"=">>, Semicolon |-> <<";">>, Plus |-> <<"+">>,
     Minus |-> <<"-">>, Star |-> <<"*">>, Slash |-> <<"/">>]

Tok(kind, data) == [kind |-> kind, data |-> data]

\* Every token the lexer can scan from a source over the modelled alphabet.
Token ==
    {Tok("Name", d) : d \in NameData}
    \cup {Tok("Num", d) : d \in NumData}
    \cup {Tok(k, PunctData[k]) : k \in {"Eq", "Semicolon"} \cup OperatorKinds}

\* What a scan of the source yields besides a token: the end of the input
\* (next() = None) and a lexeme that matches no token rule.
EndOfInput == Tok("EndOfInput", <<>>)

BadLexeme == Tok("BadLexeme", <<"?">>)

\* ----------------------------------------------------------- expressions
\* enum OpKind { Sub, Add, Mul, Div }
OpKind == {"Sub", "Add", "Mul", "Div"}

\* enum Expr { Var(&str), Num(i32), Op(OpKind) }
Var(name) == [k |-> "Var", name |-> name, val |-> 0, op |-> "none"]

Num(val) == [k |-> "Num", name |-> <<>>, val |-> val, op |-> "none"]

Op(kind) == [k |-> "Op", name |-> <<>>, val |-> 0, op |-> kind]

\* Range<usize>
Range(start, end) == [start |-> start, end |-> end]

\* Stmt::VarAssign { name, expr }
VarAssign(name, expr) == [name |-> name, expr |-> expr]

\* ------------------------------------------------------------- parse_num
DigitVal ==
    [c \in {"0", "1", "2", "3", "4", "5", "6", "7", "8", "9"} |->
        CASE c = "0" -> 0 [] c = "1" -> 1 [] c = "2" -> 2 [] c = "3" -> 3
          [] c = "4" -> 4 [] c = "5" -> 5 [] c = "6" -> 6 [] c = "7" -> 7
          [] c = "8" -> 8 [] c = "9" -> 9]

\* str::parse::<i32> on a run of digits: the digits are folded left to right
\* with checked multiplication and addition; -1 stands for Err.
RECURSIVE FromStrI32(_, _)
FromStrI32(src, acc) ==
    IF src = <<>> THEN acc
    ELSE LET d == DigitVal[Head(src)]
         IN  IF acc > I32Max \div 10 THEN -1              \* checked_mul fails
             ELSE IF acc * 10 > I32Max - d THEN -1        \* checked_add fails
             ELSE FromStrI32(Tail(src), acc * 10 + d)

\* parse_num: the decoded value, or -1 where the code reports the error and
\* exits.
parse_num(src) == IF src = <<>> THEN -1 ELSE FromStrI32(src, 0)

\* ----------------------------------------------------------------- state
VARIABLES
    toks,       \* the tokens the lexer has scanned from the source so far
    pos,        \* how many of them the parser has consumed
    eof,        \* the lexer has met the end of the source
    pc,         \* where parse / parse_expr stands
    fault,      \* the fatal condition that ended the run, "none" before
    expr_buf,   \* parse: expr_buf
    stmt_buf,   \* parse: stmt_buf
    tok,        \* parse: the statement's leading Name token
    ret,        \* parse_expr: ret
    prev_op     \* parse_expr: prev_op

vars == <<toks, pos, eof, pc, fault, expr_buf, stmt_buf, tok, ret, prev_op>>

NoTok == Tok("none", <<>>)

Init ==
    /\ toks = <<>>
    /\ pos = 0
    /\ eof = FALSE
    /\ pc = "start"
    /\ fault = "none"
    /\ expr_buf = <<>>
    /\ stmt_buf = <<>>
    /\ tok = NoTok
    /\ ret = Range(0, 0)
    /\ prev_op = "none"

\* ----------------------------------------------------------------- lexer
\* The token the lexer holds in its one-token lookahead cache, if any.
HasPeeked == pos < Len(toks)

\* What the next scan can yield: the cached token if one was peeked, the end
\* of the input once it was met, else whatever the source holds next.
Lookahead ==
    IF HasPeeked THEN {toks[pos + 1]}
    ELSE IF eof THEN {EndOfInput}
    ELSE (IF Len(toks) < MaxToks THEN Token ELSE {}) \cup {EndOfInput, BadLexeme}

\* The scan of t, common to next() and peek().
Scan(t) ==
    /\ toks' = IF ~HasPeeked /\ t \in Token THEN Append(toks, t) ELSE toks
    /\ eof' = (eof \/ t = EndOfInput)

\* Lexer::next() yielding t: the cursor moves past the token.
LexNext(t) ==
    /\ Scan(t)
    /\ pos' = IF t \in Token THEN pos + 1 ELSE pos

\* Lexer::peek() yielding t: the token stays cached for the following next().
LexPeek(t) ==
    /\ Scan(t)
    /\ pos' = pos

\* The fault of expect_next() / expect_peek() on t, "none" when t is a token.
ExpectFault(t) ==
    CASE t = BadLexeme -> "LexicalError"
      [] t = EndOfInput -> "SyntaxError"
      [] OTHER -> "none"

\* The fault of expect_specific_next(kind) on t, "none" when t matches.
ExpectSpecificFault(t, kind) ==
    CASE t = BadLexeme -> "LexicalError"
      [] t.kind # kind -> "SyntaxError"
      [] OTHER -> "none"

\* exit_failure!(): the run ends; nothing is handed to the caller.
Fault(kind) ==
    /\ pc' = "fault"
    /\ fault' = kind

Goto(label) ==
    /\ pc' = label
    /\ fault' = fault

\* ----------------------------------------------------------- expect_read
\* expect_read's match on the token kind; Op("none") stands for the
\* unreachable!() arm.
expect_read(t) ==
    CASE t.kind = "Name" -> Var(t.data)
      [] t.kind = "Num" -> Num(parse_num(t.data))
      [] OTHER -> Op("none")

\* How a call of expect_read on t ends: "none" when it returns a node.
ReadFault(t) ==
    CASE ExpectFault(t) # "none" -> ExpectFault(t)
      [] expect_read(t) = Op("none") -> "unreachable"
      [] expect_read(t) = Num(-1) -> "NumError"
      [] OTHER -> "none"

\* expr_buf.push(expect_read(lex)), followed by the pushes of `after`.
PushRead(after, label) ==
    \E t \in Lookahead :
        /\ LexNext(t)
        /\ IF ReadFault(t) # "none"
           THEN /\ Fault(ReadFault(t))
                /\ UNCHANGED expr_buf
           ELSE /\ expr_buf' = expr_buf \o <<expect_read(t)>> \o after
                /\ Goto(label)

\* ------------------------------------------------------- parse_expr rules
\* The operator the first peek of parse_expr turns into prev_op.
FirstOp(kind) ==
    CASE kind = "Plus" -> "Add"
      [] kind = "Minus" -> "Sub"
      [] kind = "Star" -> "Mul"
      [] kind = "Slash" -> "Div"

\* The arms of the main loop's match on the peeked kind.  An arm either
\* closes the pending operator (pushes Op(prev_op), sets the new prev_op and
\* goes on to read an operand), folds (reads the operand and pushes `fold`
\* at once, prev_op kept), or returns (pushes Op(prev_op); the peeked token
\* is left to the caller).
Close(prev, new) == [arm |-> "close", push |-> <<Op(prev)>>, prev_op |-> new, fold |-> "none"]

Fold(prev, op) == [arm |-> "fold", push |-> <<>>, prev_op |-> prev, fold |-> op]

Return(prev) == [arm |-> "return", push |-> <<Op(prev)>>, prev_op |-> prev, fold |-> "none"]

\* Mutant: the Plus arm is a copy of the Star arm's folding branch.
PlusArm_Fold(prev) == Fold(prev, "Mul")

PlusArm(prev) == Close(prev, "Add")

\* Mutant: a folded Star becomes the pending operator.
StarArm_UpdatesPrev(prev) ==
    IF prev # "Div"
    THEN [arm |-> "fold", push |-> <<>>, prev_op |-> "Mul", fold |-> "Mul"]
    ELSE Close(prev, "Mul")

\* Mutant: a Star always folds, whatever the pending operator.
StarArm_Fold(prev) == Fold(prev, "Mul")

\* Mutant: a Star always closes the pending operator (no precedence).
StarArm_Close(prev) == Close(prev, "Mul")

StarArm(prev) == IF prev # "Div" THEN Fold(prev, "Mul") ELSE Close(prev, "Mul")

\* Mutant: a Slash always closes the pending operator (no precedence).
SlashArm_Close(prev) == Close(prev, "Div")

\* Mutant: a Slash always folds, whatever the pending operator.
SlashArm_Fold(prev) == Fold(prev, "Div")

SlashArm(prev) == IF prev # "Mul" THEN Fold(prev, "Div") ELSE Close(prev, "Div")

\* Mutant: the final Op(prev_op) is not pushed when the expression ends.
DefaultArm_NoPush(prev) == [arm |-> "return", push |-> <<>>, prev_op |-> prev, fold |-> "none"]

DefaultArm(prev) == Return(prev)

LoopArm(kind, prev) ==
    CASE kind = "Plus" -> PlusArm(prev)
      [] kind = "Star" -> StarArm(prev)
      [] kind = "Slash" -> SlashArm(prev)
      [] OTHER -> DefaultArm(prev)

\* parse_expr as a function of the tokens it consumes: e is
\* operand (op operand)*, the operands up to e[i - 1] are pushed, e[i] is the
\* operator the main loop peeks next and prev is prev_op.
RECURSIVE parse_expr_loop_fn(_, _, _)
parse_expr_loop_fn(e, i, prev) ==
    IF i > Len(e) THEN DefaultArm(prev).push
    ELSE LET a == LoopArm(e[i].kind, prev)
         IN  CASE a.arm = "fold" ->
                    <<expect_read(e[i + 1]), Op(a.fold)>>
                        \o parse_expr_loop_fn(e, i + 2, a.prev_op)
               [] a.arm = "close" ->
                    a.push \o <<expect_read(e[i + 1])>>
                        \o parse_expr_loop_fn(e, i + 2, a.prev_op)
               [] a.arm = "return" -> a.push

parse_expr(e) ==
    IF Len(e) = 1 THEN <<expect_read(e[1])>>
    ELSE <<expect_read(e[1]), expect_read(e[3])>>
            \o parse_expr_loop_fn(e, 4, FirstOp(e[2].kind))

\* ----------------------------------------------------------------- parse
\* Mutant: a token that starts no statement is skipped.
parse_next_Skips ==
    /\ pc = "start"
    /\ \E t \in Lookahead :
        /\ LexNext(t)
        /\ CASE t = BadLexeme -> Fault("LexicalError") /\ UNCHANGED tok
             [] t = EndOfInput -> Goto("returned") /\ UNCHANGED tok
             [] t.kind = "Name" -> Goto("expect_eq") /\ tok' = t
             [] OTHER -> Goto("start") /\ UNCHANGED tok
    /\ UNCHANGED <<expr_buf, stmt_buf, ret, prev_op>>

\* Mutant: at the end of the input the statement loop goes round again
\* instead of returning.
parse_next_NoReturn ==
    /\ pc = "start"
    /\ \E t \in Lookahead :
        /\ LexNext(t)
        /\ CASE t = BadLexeme -> Fault("LexicalError") /\ UNCHANGED tok
             [] t = EndOfInput -> Goto("start") /\ UNCHANGED tok
             [] t.kind = "Name" -> Goto("expect_eq") /\ tok' = t
             [] OTHER -> Fault("todo") /\ UNCHANGED tok
    /\ UNCHANGED <<expr_buf, stmt_buf, ret, prev_op>>

\* parse, top of the loop: lex.next() and the match on the token kind.
parse_next ==
    /\ pc = "start"
    /\ \E t \in Lookahead :
        /\ LexNext(t)
        /\ CASE t = BadLexeme -> Fault("LexicalError") /\ UNCHANGED tok
             [] t = EndOfInput -> Goto("returned") /\ UNCHANGED tok
             [] t.kind = "Name" -> Goto("expect_eq") /\ tok' = t
             [] OTHER -> Fault("todo") /\ UNCHANGED tok
    /\ UNCHANGED <<expr_buf, stmt_buf, ret, prev_op>>

\* Mutant: the outcome of expect_specific_next(Eq) is ignored and the
\* expression is parsed whatever the token was.
parse_expect_eq_Ignored ==
    /\ pc = "expect_eq"
    /\ \E t \in Lookahead :
        /\ LexNext(t)
        /\ IF ExpectFault(t) # "none"
           THEN Fault(ExpectFault(t))
           ELSE Goto("expr_first")
    /\ UNCHANGED <<expr_buf, stmt_buf, tok, ret, prev_op>>

\* lex.expect_specific_next(TokenKind::Eq), then the call of parse_expr.
parse_expect_eq ==
    /\ pc = "expect_eq"
    /\ \E t \in Lookahead :
        /\ LexNext(t)
        /\ IF ExpectSpecificFault(t, "Eq") # "none"
           THEN Fault(ExpectSpecificFault(t, "Eq"))
           ELSE Goto("expr_first")
    /\ UNCHANGED <<expr_buf, stmt_buf, tok, ret, prev_op>>

\* Mutant: the range starts at 0 instead of at the buffer's current length.
parse_expr_first_FromZero ==
    /\ pc = "expr_first"
    /\ ret' = Range(0, 0)
    /\ PushRead(<<>>, "expr_peek")
    /\ UNCHANGED <<stmt_buf, tok, prev_op>>

\* Mutant: the buffer is cleared before each expression is parsed.
parse_expr_first_Clears ==
    /\ pc = "expr_first"
    /\ ret' = Range(0, 0)
    /\ \E t \in Lookahead :
        /\ LexNext(t)
        /\ IF ReadFault(t) # "none"
           THEN /\ Fault(ReadFault(t))
                /\ UNCHANGED expr_buf
           ELSE /\ expr_buf' = <<expect_read(t)>>
                /\ Goto("expr_peek")
    /\ UNCHANGED <<stmt_buf, tok, prev_op>>

\* parse_expr: ret = start.., then the first operand.
parse_expr_first ==
    /\ pc = "expr_first"
    /\ ret' = Range(Len(expr_buf), 0)
    /\ PushRead(<<>>, "expr_peek")
    /\ UNCHANGED <<stmt_buf, tok, prev_op>>

\* Mutant: the first look at the token after the operand uses next()
\* instead of peek(), so the token that ends the expression is consumed.
parse_expr_peek_Consumes ==
    /\ pc = "expr_peek"
    /\ \E t \in Lookahead :
        IF ExpectFault(t) # "none"
        THEN /\ LexNext(t)
             /\ Fault(ExpectFault(t))
             /\ UNCHANGED <<ret, prev_op>>
        ELSE IF t.kind \in OperatorKinds
        THEN /\ LexNext(t)
             /\ prev_op' = FirstOp(t.kind)
             /\ Goto("expr_second")
             /\ UNCHANGED ret
        ELSE /\ LexNext(t)
             /\ ret' = Range(ret.start, Len(expr_buf))
             /\ Goto("expect_semi")
             /\ UNCHANGED prev_op
    /\ UNCHANGED <<expr_buf, stmt_buf, tok>>

\* parse_expr: the first peek; an operator becomes prev_op and is consumed,
\* anything else ends the expression with the token left unconsumed.
parse_expr_peek ==
    /\ pc = "expr_peek"
    /\ \E t \in Lookahead :
        IF ExpectFault(t) # "none"
        THEN /\ LexPeek(t)
             /\ Fault(ExpectFault(t))
             /\ UNCHANGED <<ret, prev_op>>
        ELSE IF t.kind \in OperatorKinds
        THEN /\ LexNext(t)
             /\ prev_op' = FirstOp(t.kind)
             /\ Goto("expr_second")
             /\ UNCHANGED ret
        ELSE /\ LexPeek(t)
             /\ ret' = Range(ret.start, Len(expr_buf))
             /\ Goto("expect_semi")
             /\ UNCHANGED prev_op
    /\ UNCHANGED <<expr_buf, stmt_buf, tok>>

\* parse_expr: the second operand, before the main loop.
parse_expr_second ==
    /\ pc = "expr_second"
    /\ PushRead(<<>>, "loop")
    /\ UNCHANGED <<stmt_buf, tok, ret, prev_op>>

\* parse_expr: the main loop's peek and match.
parse_expr_loop ==
    /\ pc = "loop"
    /\ \E t \in Lookahead :
        IF ExpectFault(t) # "none"
        THEN /\ LexPeek(t)
             /\ Fault(ExpectFault(t))
             /\ UNCHANGED <<expr_buf, ret, prev_op>>
        ELSE LET a == LoopArm(t.kind, prev_op)
             IN  /\ expr_buf' = expr_buf \o a.push
                 /\ prev_op' = a.prev_op
                 /\ CASE a.arm = "return" ->
                            /\ LexPeek(t)
                            /\ ret' = Range(ret.start, Len(expr_buf'))
                            /\ Goto("expect_semi")
                      [] a.arm = "close" ->
                            /\ LexNext(t)
                            /\ Goto("loop_read")
                            /\ UNCHANGED ret
                      [] a.arm = "fold" ->
                            /\ LexNext(t)
                            /\ Goto(IF a.fold = "Mul" THEN "star_read" ELSE "slash_read")
                            /\ UNCHANGED ret
    /\ UNCHANGED <<stmt_buf, tok>>

\* Mutant: the folded Star reads its operand but pushes only Op(Mul).
parse_expr_star_read_Drops ==
    /\ pc = "star_read"
    /\ \E t \in Lookahead :
        /\ LexNext(t)
        /\ IF ReadFault(t) # "none"
           THEN /\ Fault(ReadFault(t))
                /\ UNCHANGED expr_buf
           ELSE /\ expr_buf' = Append(expr_buf, Op("Mul"))
                /\ Goto("loop")
    /\ UNCHANGED <<stmt_buf, tok, ret, prev_op>>

\* parse_expr, Star arm with prev_op != Div: operand, then Op(Mul); continue.
parse_expr_star_read ==
    /\ pc = "star_read"
    /\ PushRead(<<Op("Mul")>>, "loop")
    /\ UNCHANGED <<stmt_buf, tok, ret, prev_op>>

\* parse_expr, Slash arm with prev_op != Mul: operand, then Op(Div); continue.
parse_expr_slash_read ==
    /\ pc = "slash_read"
    /\ PushRead(<<Op("Div")>>, "loop")
    /\ UNCHANGED <<stmt_buf, tok, ret, prev_op>>

\* parse_expr: the operand read that ends an iteration of the main loop.
parse_expr_loop_read ==
    /\ pc = "loop_read"
    /\ PushRead(<<>>, "loop")
    /\ UNCHANGED <<stmt_buf, tok, ret, prev_op>>

\* Mutant: a statement is stored only if no statement has its name yet.
parse_expect_semi_Dedup ==
    /\ pc = "expect_semi"
    /\ stmt_buf' = IF \E i \in 1..Len(stmt_buf) : stmt_buf[i].name = tok.data
                   THEN stmt_buf
                   ELSE Append(stmt_buf, VarAssign(tok.data, ret))
    /\ \E t \in Lookahead :
        /\ LexNext(t)
        /\ IF ExpectSpecificFault(t, "Semicolon") # "none"
           THEN Fault(ExpectSpecificFault(t, "Semicolon"))
           ELSE Goto("start")
    /\ UNCHANGED <<expr_buf, tok, ret, prev_op>>

\* parse: the statement is pushed, then expect_specific_next(Semicolon).
parse_expect_semi ==
    /\ pc = "expect_semi"
    /\ stmt_buf' = Append(stmt_buf, VarAssign(tok.data, ret))
    /\ \E t \in Lookahead :
        /\ LexNext(t)
        /\ IF ExpectSpecificFault(t, "Semicolon") # "none"
           THEN Fault(ExpectSpecificFault(t, "Semicolon"))
           ELSE Goto("start")
    /\ UNCHANGED <<expr_buf, tok, ret, prev_op>>

Next ==
    \/ parse_next
    \/ parse_expect_eq
    \/ parse_expr_first
    \/ parse_expr_peek
    \/ parse_expr_second
    \/ parse_expr_loop
    \/ parse_expr_star_read
    \/ parse_expr_slash_read
    \/ parse_expr_loop_read
    \/ parse_expect_semi

Spec == Init /\ [][Next]_vars

\* parse runs on one thread with no suspension point: as long as a step of
\* the code is possible, one is taken.
FairSpec == Spec /\ WF_vars(Next)

\* ------------------------------------------------------------ type sanity
TypeOK ==
    /\ pos \in 0..MaxToks
    /\ Len(toks) \in pos..(pos + 1)
    /\ pc \in {"start", "expect_eq", "expr_first", "expr_peek", "expr_second",
               "loop", "star_read", "slash_read", "loop_read", "expect_semi",
               "returned", "fault"}
    /\ (pc = "fault") = (fault # "none")

\* ================================================================ claims
\* The nodes of a range of the expression buffer.
Slice(r) == SubSeq(expr_buf, r.start + 1, r.end)

\* The stack machine of the postfix form, counting values only: Var/Num push
\* one value, Op pops two and pushes one.  -1 once an Op meets fewer than two
\* values.
RECURSIVE StackDepth(_, _)
StackDepth(nodes, depth) ==
    IF nodes = <<>> THEN depth
    ELSE IF Head(nodes).k = "Op"
         THEN IF depth < 2 THEN -1 ELSE StackDepth(Tail(nodes), depth - 1)
         ELSE StackDepth(Tail(nodes), depth + 1)

Evaluable(nodes) == StackDepth(nodes, 0) = 1

\* The ranges parse_expr has returned so far: the one just returned and the
\* ones already stored in statements.
ReturnedRanges ==
    {stmt_buf[i].expr : i \in 1..Len(stmt_buf)}
    \cup (IF pc = "expect_semi" THEN {ret} ELSE {})

OpsOf(nodes) == {nodes[i].op : i \in {j \in 1..Len(nodes) : nodes[j].k = "Op"}}

\* C1: every range parse_expr returns is evaluable by the stack machine:
\* no Op pops from a stack of fewer than two values, and exactly one value
\* is left at the end.
C1_PostfixEvaluable ==
    \A r \in ReturnedRanges : Evaluable(Slice(r))

\* C1 witness: parse_expr has returned a range of four operands whose
\* operators are a mix of Sub, Mul and Div.
C1_Witness ==
    /\ pc = "expect_semi"
    /\ ret.end - ret.start = 7
    /\ OpsOf(Slice(ret)) = {"Sub", "Mul", "Div"}
    /\ Evaluable(Slice(ret))

\* C2: when parse returns with at least one statement, the statements'
\* ranges tile the expression buffer in statement order: the first starts at
\* 0, each ends where the next starts, none is empty, and the last ends at
\* the buffer's length.
C2_RangesContiguous ==
    (pc = "returned" /\ Len(stmt_buf) >= 1) =>
        /\ stmt_buf[1].expr.start = 0
        /\ \A i \in 1..(Len(stmt_buf) - 1) :
                stmt_buf[i].expr.end = stmt_buf[i + 1].expr.start
        /\ \A i \in 1..Len(stmt_buf) :
                stmt_buf[i].expr.start < stmt_buf[i].expr.end
        /\ stmt_buf[Len(stmt_buf)].expr.end = Len(expr_buf)

\* C2 witness: parse has returned two statements, the second with an
\* expression of more than one node.
C2_Witness ==
    /\ pc = "returned"
    /\ Len(stmt_buf) = 2
    /\ stmt_buf[2].expr.start = stmt_buf[1].expr.end
    /\ stmt_buf[2].expr.end - stmt_buf[2].expr.start > 1

\* ------------------------------------------------- the source expression
\* Position in toks of the `=` of the statement being parsed.
RECURSIVE LastEq(_)
LastEq(i) == IF i = 0 \/ toks[i].kind = "Eq" THEN i ELSE LastEq(i - 1)

\* The tokens parse_expr has consumed for the current expression.
ExprToks == SubSeq(toks, LastEq(pos) + 1, pos)

\* The infix form operand (op operand)*: operands at odd places, operators
\* at even places, ending with an operand.
IsInfix(e) ==
    /\ Len(e) % 2 = 1
    /\ \A i \in 1..Len(e) :
          IF i % 2 = 1 THEN e[i].kind \in {"Name", "Num"}
          ELSE e[i].kind \in OperatorKinds

OperatorsOf(e) == [i \in 1..(Len(e) \div 2) |-> e[2 * i].kind]

OperandsOf(e) == [i \in 1..((Len(e) + 1) \div 2) |-> e[2 * i - 1]]

KindOp == [Plus |-> "Add", Minus |-> "Sub", Star |-> "Mul", Slash |-> "Div"]

\* x1, x2, Op(o1), x3, Op(o2), ..., xn, Op(o_{n-1}).
RECURSIVE LeftAssocFrom(_, _)
LeftAssocFrom(e, i) ==
    IF i > Len(e) THEN <<>>
    ELSE <<expect_read(e[i + 1]), Op(KindOp[e[i].kind])>> \o LeftAssocFrom(e, i + 2)

LeftAssoc(e) == <<expect_read(e[1])>> \o LeftAssocFrom(e, 2)

CountNodes(nodes, kinds) == Cardinality({i \in 1..Len(nodes) : nodes[i].k \in kinds})

\* C3: parse_expr recognizes the whole of operand (op operand)*: when it
\* returns, the token it leaves to the caller is not an operator (every
\* operator of the chain was consumed, so a well-formed statement's `;` is
\* what parse meets next), and its range holds one Var/Num per operand and
\* one Op per operator consumed.
C3_WholeGrammar ==
    pc = "expect_semi" =>
        /\ IsInfix(ExprToks)
        /\ toks[pos + 1].kind \notin OperatorKinds
        /\ CountNodes(Slice(ret), {"Var", "Num"}) = Len(OperandsOf(ExprToks))
        /\ CountNodes(Slice(ret), {"Op"}) = Len(OperatorsOf(ExprToks))

\* C4: a chain of n >= 2 operands joined only by `+` comes out
\* left-associative: x1, x2, Add, x3, Add, ..., xn, Add.
C4_PlusChainLeftAssoc ==
    /\ pc = "expect_semi"
    /\ Len(ExprToks) >= 3
    /\ \A i \in DOMAIN OperatorsOf(ExprToks) : OperatorsOf(ExprToks)[i] = "Plus"
    => Slice(ret) = LeftAssoc(ExprToks)

\* C4 witness: parse_expr has returned for a chain of four operands joined
\* by three `+`.
C4_Witness ==
    /\ pc = "expect_semi"
    /\ Len(ExprToks) = 7
    /\ \A i \in 1..3 : ExprToks[2 * i].kind = "Plus"
    /\ Slice(ret)[3] = Op("Add") /\ Slice(ret)[5] = Op("Add") /\ Slice(ret)[7] = Op("Add")

\* ------------------------------------------------------------ evaluation
\* Values the variables take when an expression is evaluated.
VarValues == {2, 3, 5}

Env == [NameData -> VarValues]

Apply(op, a, b) ==
    CASE op = "Add" -> a + b
      [] op = "Sub" -> a - b
      [] op = "Mul" -> a * b
      [] op = "Div" -> IF b = 0 THEN 0 ELSE a \div b

\* The stack machine on values: the stack after the nodes, left to right.
RECURSIVE PostfixRun(_, _, _)
PostfixRun(nodes, stack, env) ==
    IF nodes = <<>> THEN stack
    ELSE LET n == Head(nodes)
             d == Len(stack)
         IN  CASE n.k = "Var" -> PostfixRun(Tail(nodes), Append(stack, env[n.name]), env)
               [] n.k = "Num" -> PostfixRun(Tail(nodes), Append(stack, n.val), env)
               [] n.k = "Op" ->
                    PostfixRun(Tail(nodes),
                               Append(SubSeq(stack, 1, d - 2),
                                      Apply(n.op, stack[d - 1], stack[d])),
                               env)

PostfixValue(nodes, env) == PostfixRun(nodes, <<>>, env)[1]

\* The source's literal values, decoded digit by digit (no range check).
RECURSIVE Decimal(_, _)
Decimal(src, acc) ==
    IF src = <<>> THEN acc ELSE Decimal(Tail(src), acc * 10 + DigitVal[Head(src)])

OperandValue(t, env) == IF t.kind = "Name" THEN env[t.data] ELSE Decimal(t.data, 0)

\* The value of an infix expression over `+` and `*` with `*` binding
\* tighter: a sum of products, i being the next operator's place, sum the
\* products closed so far and prod the product being built.
RECURSIVE SumOfProducts(_, _, _, _, _)
SumOfProducts(e, i, sum, prod, env) ==
    IF i > Len(e) THEN sum + prod
    ELSE IF e[i].kind = "Star"
         THEN SumOfProducts(e, i + 2, sum, prod * OperandValue(e[i + 1], env), env)
         ELSE SumOfProducts(e, i + 2, sum + prod, OperandValue(e[i + 1], env), env)

InfixValue(e, env) == SumOfProducts(e, 2, 0, OperandValue(e[1], env), env)

OnlyOperators(e, kinds) == \A i \in DOMAIN OperatorsOf(e) : OperatorsOf(e)[i] \in kinds

\* C5: for an expression over `+` and `*` only, evaluating the returned
\* postfix range on the stack machine gives the value of the infix
\* expression with `*` binding tighter than `+`.
C5_MulBeforeAdd ==
    (pc = "expect_semi" /\ OnlyOperators(ExprToks, {"Plus", "Star"})) =>
        \A env \in Env : PostfixValue(Slice(ret), env) = InfixValue(ExprToks, env)

\* C5 witness: parse_expr has returned for x1 * x2 + x3 * x4, two `*`
\* groups joined by a `+`.
C5_Witness ==
    /\ pc = "expect_semi"
    /\ Len(ExprToks) = 7
    /\ OperatorsOf(ExprToks) = <<"Star", "Plus", "Star">>
    /\ \A env \in Env : PostfixValue(Slice(ret), env) = InfixValue(ExprToks, env)

\* Each operator differs from the one before it.
Alternates(ops) == \A i \in 1..(Len(ops) - 1) : ops[i] # ops[i + 1]

\* C6: when the operators strictly alternate between `/` and `*`, every
\* operator is closed before the next right operand is pushed: the range is
\* x1, x2, Op(o1), x3, Op(o2), ..., xn, Op(o_{n-1}).
C6_DivMulAlternation ==
    /\ pc = "expect_semi"
    /\ Len(ExprToks) >= 3
    /\ OnlyOperators(ExprToks, {"Slash", "Star"})
    /\ Alternates(OperatorsOf(ExprToks))
    => Slice(ret) = LeftAssoc(ExprToks)

\* C6 witness: parse_expr has returned for x1 / x2 * x3 / x4.
C6_Witness ==
    /\ pc = "expect_semi"
    /\ OperatorsOf(ExprToks) = <<"Slash", "Star", "Slash">>
    /\ Slice(ret)[3] = Op("Div") /\ Slice(ret)[5] = Op("Mul") /\ Slice(ret)[7] = Op("Div")

\* --------------------------------------------------- malformed statements
\* This step consumed a token of another kind than `kind`, or met the end
\* of the input where a token of that kind was due.
Missing(kind) ==
    \/ pos' = pos + 1 /\ toks'[pos'].kind # kind
    \/ pos' = pos /\ eof'

\* C7: when the token after a statement's leading Name is not `=`, or the
\* token after its right-hand side is not `;`, parse ends in the SyntaxError
\* fault, and a run that has faulted never returns.
C7_MalformedAssignFaults ==
    [][/\ (pc = "expect_eq" /\ Missing("Eq")) =>
            (pc' = "fault" /\ fault' = "SyntaxError")
       /\ (pc = "expect_semi" /\ Missing("Semicolon")) =>
            (pc' = "fault" /\ fault' = "SyntaxError")
       /\ pc = "fault" => pc' = "fault"]_vars

\* C7 witness: after one well-formed statement, a second statement's Name
\* was followed by a token other than `=`, and parse ended in SyntaxError.
C7_Witness ==
    /\ pc = "fault" /\ fault = "SyntaxError"
    /\ Len(stmt_buf) = 1
    /\ pos >= 6
    /\ toks[pos].kind # "Eq"
    /\ toks[pos - 1].kind = "Name"
    /\ toks[pos - 2].kind = "Semicolon"

\* The grammar (Name Eq operand (op operand)* Semicolon)* as an automaton
\* over token kinds: S at the start of a statement, N after its Name, E
\* where an operand is due, O after an operand.
GrammarStep(q, kind) ==
    CASE q = "S" /\ kind = "Name" -> "N"
      [] q = "N" /\ kind = "Eq" -> "E"
      [] q = "E" /\ kind \in {"Name", "Num"} -> "O"
      [] q = "O" /\ kind \in OperatorKinds -> "E"
      [] q = "O" /\ kind = "Semicolon" -> "S"
      [] OTHER -> "dead"

RECURSIVE GrammarRun(_, _)
GrammarRun(ts, q) ==
    IF ts = <<>> THEN q ELSE GrammarRun(Tail(ts), GrammarStep(q, Head(ts).kind))

GrammarState == GrammarRun(toks, "S")

\* C8: parse returns exactly when the whole token stream matches
\* (Name Eq expr Semicolon)*: it returns only at the start of a statement;
\* a stream that ends anywhere else ends in SyntaxError; and parse rejects a
\* stream of decodable tokens only when the stream leaves the grammar or
\* ends inside a statement.
C8_ReturnsIffMatches ==
    /\ pc = "returned" => (eof /\ GrammarState = "S")
    /\ (eof /\ GrammarState \notin {"S", "dead"}) =>
            (pc = "fault" /\ fault = "SyntaxError")
    /\ (pc = "fault" /\ fault \notin {"LexicalError", "NumError"}) =>
            (GrammarState = "dead" \/ (eof /\ GrammarState # "S"))

\* C9: the unreachable!() arm of expect_read is never executed.
C9_UnreachableNeverRuns ==
    fault # "unreachable"

\* C10: when the token after the first operand is not an operator,
\* parse_expr returns the one-element range holding that operand, pushes no
\* Op, and leaves the token in the lexer for the caller.
C10_SingleOperand ==
    /\ (pc = "expect_semi" /\ (Len(ExprToks) = 1 \/ ret.end = ret.start + 1)) =>
            /\ Len(ExprToks) = 1
            /\ ret = Range(Len(expr_buf) - 1, Len(expr_buf))
            /\ Slice(ret) = <<expect_read(toks[pos])>>
            /\ HasPeeked
            /\ toks[pos + 1].kind \notin OperatorKinds
    /\ (pc = "start" /\ pos >= 4 /\ toks[pos - 2].kind = "Eq") =>
            /\ toks[pos].kind = "Semicolon"
            /\ stmt_buf[Len(stmt_buf)].expr = Range(Len(expr_buf) - 1, Len(expr_buf))
    /\ (HasPeeked /\ toks[pos].kind \in {"Name", "Num"} /\ toks[pos - 1].kind = "Eq"
            /\ toks[pos + 1].kind \notin OperatorKinds) =>
            pc = "expect_semi"

\* C10 witness: a statement `name = operand ;` was accepted: parse_expr
\* returned the one-element range and parse then consumed the `;`.
C10_Witness ==
    /\ pc = "start"
    /\ pos = 4
    /\ toks[2].kind = "Eq" /\ toks[4].kind = "Semicolon"
    /\ stmt_buf = <<VarAssign(toks[1].data, Range(0, 1))>>
    /\ expr_buf = <<expect_read(toks[3])>>

\* ------------------------------------------------------------ statements
\* The places in the consumed tokens where an assignment starts: the first
\* token and every token that follows a `;`.
StmtStarts == {i \in 1..pos : i = 1 \/ toks[i - 1].kind = "Semicolon"}

\* The i-th smallest element of a set of numbers.
RECURSIVE Nth(_, _)
Nth(S, i) ==
    LET m == CHOOSE x \in S : \A y \in S : x <= y
    IN  IF i = 1 THEN m ELSE Nth(S \ {m}, i - 1)

Semicolons == {i \in 1..pos : toks[i].kind = "Semicolon"}

\* C11: when parse returns, the statement list holds one VarAssign per
\* `;`-terminated assignment of the input, in source order, the i-th named
\* by the leading Name of the i-th assignment; assignments to the same name
\* each have their own statement.
C11_StatementsInOrder ==
    pc = "returned" =>
        /\ Len(stmt_buf) = Cardinality(Semicolons)
        /\ Cardinality(StmtStarts) = Len(stmt_buf)
        /\ \A i \in 1..Len(stmt_buf) :
              /\ toks[Nth(StmtStarts, i)].kind = "Name"
              /\ stmt_buf[i].name = toks[Nth(StmtStarts, i)].data

\* C11 witness: parse has returned two statements that assign the same
\* name, each with its own statement.
C11_Witness ==
    /\ pc = "returned"
    /\ Len(stmt_buf) = 2
    /\ stmt_buf[1].name = stmt_buf[2].name
    /\ toks[1].data = toks[5].data

\* C12: the expression buffer is append-only: every step keeps the nodes
\* already in it at their indices and never shrinks it, and keeps the
\* statements already pushed, so the nodes of a range handed to a statement
\* stay what they were when the statement was pushed.
C12_BufferAppendOnly ==
    [][/\ Len(expr_buf') >= Len(expr_buf)
       /\ SubSeq(expr_buf', 1, Len(expr_buf)) = expr_buf
       /\ Len(stmt_buf') >= Len(stmt_buf)
       /\ \A i \in 1..Len(stmt_buf) :
            /\ stmt_buf'[i] = stmt_buf[i]
            /\ SubSeq(expr_buf', stmt_buf[i].expr.start + 1, stmt_buf[i].expr.end)
                  = Slice(stmt_buf[i].expr)]_vars

\* C12 witness: parse has returned two statements; the buffer grew by the
\* second statement's nodes after the first statement's range was handed out.
C12_Witness ==
    /\ pc = "returned"
    /\ Len(stmt_buf) = 2
    /\ stmt_buf[1].expr = Range(0, 3)
    /\ Len(expr_buf) > 3
    /\ Slice(stmt_buf[1].expr)[3].k = "Op"

\* ------------------------------------------------------------ precedence
\* The stack machine on the kind of each value: "leaf" for a Var/Num, the
\* operator for the result of an Op.  TRUE when some Op(Mul) or Op(Div)
\* takes the result of an Op(Add) or Op(Sub) as an operand.
RECURSIVE MultipliesSum(_, _)
MultipliesSum(nodes, stack) ==
    IF nodes = <<>> THEN FALSE
    ELSE LET n == Head(nodes)
             d == Len(stack)
         IN  IF n.k # "Op" THEN MultipliesSum(Tail(nodes), Append(stack, "leaf"))
             ELSE \/ /\ n.op \in {"Mul", "Div"}
                     /\ {stack[d - 1], stack[d]} \cap {"Add", "Sub"} # {}
                  \/ MultipliesSum(Tail(nodes), Append(SubSeq(stack, 1, d - 2), n.op))

\* C13: two precedence levels: in every returned range, no operand of an
\* Op(Mul) or Op(Div) is the result of an Op(Add) or Op(Sub).
C13_TwoPrecedenceLevels ==
    \A r \in ReturnedRanges : ~MultipliesSum(Slice(r), <<>>)

\* C13 witness: parse_expr has returned a range of four operands mixing
\* Add with Mul and Div, and no additive result is multiplied or divided.
C13_Witness ==
    /\ pc = "expect_semi"
    /\ ret.end - ret.start = 7
    /\ OpsOf(Slice(ret)) = {"Add", "Mul", "Div"}
    /\ OperatorsOf(ExprToks)[1] = "Plus"
    /\ ~MultipliesSum(Slice(ret), <<>>)

\* C14: a chain of subtractions is linearized left-associatively: when
\* parse_expr returns for operands joined only by `-`, the whole chain was
\* consumed (the token left to the caller is not another `-`) and the range
\* is x1, x2, Op(Sub), x3, Op(Sub), ..., xn, Op(Sub).
C14_MinusChainLeftAssoc ==
    /\ pc = "expect_semi"
    /\ Len(ExprToks) >= 3
    /\ OnlyOperators(ExprToks, {"Minus"})
    => /\ toks[pos + 1].kind # "Minus"
       /\ Slice(ret) = LeftAssoc(ExprToks)

\* ------------------------------------------------------ Star/Slash duality
\* The expression with every `*` replaced by `/` and every `/` by `*`.
SwapTok(t) ==
    CASE t.kind = "Star" -> Tok("Slash", PunctData["Slash"])
      [] t.kind = "Slash" -> Tok("Star", PunctData["Star"])
      [] OTHER -> t

SwapToks(e) == [i \in 1..Len(e) |-> SwapTok(e[i])]

\* The nodes with every Op(Mul) replaced by Op(Div) and every Op(Div) by
\* Op(Mul), at the same positions.
SwapNode(n) ==
    CASE n = Op("Mul") -> Op("Div")
      [] n = Op("Div") -> Op("Mul")
      [] OTHER -> n

SwapNodes(nodes) == [i \in 1..Len(nodes) |-> SwapNode(nodes[i])]

\* C15: the Slash rule is the Star rule with Mul and Div exchanged: the
\* range returned for an expression is what parse_expr gives for its tokens,
\* and exchanging `*` and `/` in the tokens gives the same output with
\* Op(Mul) and Op(Div) exchanged at the same positions.
C15_StarSlashDual ==
    pc = "expect_semi" =>
        /\ Slice(ret) = parse_expr(ExprToks)
        /\ parse_expr(SwapToks(ExprToks)) = SwapNodes(Slice(ret))

\* C15 witness: parse_expr has returned for x1 + x2 / x3 * x4, whose output
\* holds both a Div and a Mul, and the exchanged input gives the exchanged
\* output.
C15_Witness ==
    /\ pc = "expect_semi"
    /\ OperatorsOf(ExprToks) = <<"Plus", "Slash", "Star">>
    /\ Slice(ret)[4] = Op("Div") /\ Slice(ret)[6] = Op("Mul")
    /\ parse_expr(SwapToks(ExprToks))[4] = Op("Mul")
    /\ parse_expr(SwapToks(ExprToks))[6] = Op("Div")

\* C16: a statement starts with a Name only: when the token read at the
\* start of a statement is of any other kind, parse faults, hands out
\* nothing more and never returns.
C16_LeadingNameOnly ==
    [][/\ (pc = "start" /\ pos' = pos + 1 /\ toks'[pos'].kind # "Name") =>
            (pc' = "fault" /\ fault' # "none" /\ UNCHANGED <<expr_buf, stmt_buf>>)
       /\ (pc = "start" /\ pc' = "expect_eq") =>
            (pos' = pos + 1 /\ toks'[pos'].kind = "Name" /\ tok' = toks'[pos'])
       /\ pc = "fault" => pc' = "fault"]_vars

\* C16 witness: after one well-formed statement, an empty statement `;`
\* made parse fault.
C16_Witness ==
    /\ pc = "fault"
    /\ fault = "todo"
    /\ pos = 5
    /\ toks[4].kind = "Semicolon" /\ toks[5].kind = "Semicolon"
    /\ Len(stmt_buf) = 1

\* ----------------------------------------------------------------- folds
\* This step consumed a token of kind `kind`.
Consumed(kind) == pos' = pos + 1 /\ toks'[pos'].kind = kind

\* The step that follows a fold decision: the right operand and then
\* Op(op) are appended, prev_op is kept and the loop goes on.
FoldsWith(op) ==
    pc' # "fault" =>
        /\ expr_buf' = expr_buf \o <<expect_read(toks'[pos']), Op(op)>>
        /\ prev_op' = prev_op
        /\ pc' = "loop"

SubCount(nodes) == Cardinality({i \in 1..Len(nodes) : nodes[i] = Op("Sub")})

NodeOf(t) == IF t.kind = "Name" THEN Var(t.data) ELSE Num(Decimal(t.data, 0))

\* The Var/Num nodes of a sequence of nodes, in order.
RECURSIVE Leaves(_)
Leaves(nodes) ==
    IF nodes = <<>> THEN <<>>
    ELSE IF Head(nodes).k = "Op" THEN Leaves(Tail(nodes))
    ELSE <<Head(nodes)>> \o Leaves(Tail(nodes))

\* C18: the Var/Num nodes of a returned range, in buffer order, are the
\* operands consumed from the source, in source order: none dropped,
\* duplicated or reordered.
C18_OperandsInSourceOrder ==
    pc = "expect_semi" =>
        Leaves(Slice(ret)) =
            [i \in 1..Len(OperandsOf(ExprToks)) |-> NodeOf(OperandsOf(ExprToks)[i])]

\* C18 witness: parse_expr has returned for four operands, not all alike,
\* with a fold among the operators, so that the Op nodes are not at their
\* infix places.
C18_Witness ==
    /\ pc = "expect_semi"
    /\ Len(ExprToks) = 7
    /\ ExprToks[1] # ExprToks[3] /\ ExprToks[3] # ExprToks[5] /\ ExprToks[1] # ExprToks[5]
    /\ OperatorsOf(ExprToks) = <<"Plus", "Star", "Plus">>
    /\ Leaves(Slice(ret)) = <<NodeOf(ExprToks[1]), NodeOf(ExprToks[3]),
                              NodeOf(ExprToks[5]), NodeOf(ExprToks[7])>>

\* ------------------------------------------------------------ termination
Ended == pc \in {"returned", "fault"}

\* C19: parse is one linear pass that terminates: every step consumes
\* exactly one token, or ends the run, or is parse_expr's return to parse
\* (whose next step consumes a token or ends the run); the tokens already
\* scanned are never scanned or consumed again; and every run ends returned
\* or faulted.
C19_Terminates ==
    /\ [][/\ pos' = pos + 1 \/ (pos' = pos /\ (pc' \in {"returned", "fault"} \/ pc' = "expect_semi"))
          /\ pc = "expect_semi" => (pos' = pos + 1 \/ pc' = "fault")
          /\ SubSeq(toks', 1, Len(toks)) = toks
          /\ Len(toks') <= Len(toks) + 1]_vars
    /\ <>Ended

\* C19 witness: a run over the longest token stream has returned, every
\* token consumed once.
C19_Witness ==
    /\ pc = "returned"
    /\ pos = Len(toks)
    /\ pos >= MaxToks - 1
    /\ Len(stmt_buf) >= 1

====
